---- MODULE Spec2Model ----
(***************************************************************************)
(* Model of simulator/gui/layers.py: the tick handlers (move) of the       *)
(* mobile robot layer and of the linear actuator layer.                    *)
(*                                                                         *)
(* Positions of the mobile robot are fixed-point numbers, Scale units of   *)
(* the model per world unit, so that a projection of the velocity along a  *)
(* heading that is a multiple of 5 degrees is an integer.                  *)
(***************************************************************************)
EXTENDS Integers, Sequences, FiniteSets, TLC

VARIABLES
    x, y, angle,            \* robot_drawing.x / .y / .angle (mobile robot)
    is_moving, is_rotating, \* MoblileRobotLayer.is_moving / .is_rotating
    servo_left, servo_right,\* robot.servo_left / robot.servo_right values
    light_values,           \* robot light sensor values (set_light_sens_value)
    sound,                  \* robot.sound.value / robot.sound.dist
    last,                   \* what the last call of MoblileRobotLayer.move did
    block_x,                \* robot_drawing.block.x (linear actuator)
    button_left, button_right, \* robot.button_left.value / button_right.value
    hit,                    \* robot_drawing.hit
    servo,                  \* robot.servo.value
    joy_dx, joy_dy,         \* robot.joystick.dx / .dy
    alast,                  \* what the last call of LinearActuatorLayer.move did
    ticks,                  \* number of calls made on the layer so far
    rig,                    \* the class of the layer: "mobile" or "actuator"
    is_drawing,             \* Layer.is_drawing
    zoom,                   \* the zoom level of the drawing (drawing.Drawing)
    zoom_percent,           \* Layer.zoom_percent
    canvas,                 \* what is drawn on the canvas, in drawing order
    lop,                    \* the last call made on the layer
    last_ss,                \* the last of execute ("start") and stop made
    ref,                    \* the mobile robot of a run given the same calls
                            \* of move and no other call
    aref                    \* the same for the linear actuator

vars == <<x, y, angle, is_moving, is_rotating, servo_left, servo_right,
          light_values, sound, last,
          block_x, button_left, button_right, hit, servo, joy_dx, joy_dy,
          alast, ticks, rig, is_drawing, zoom, zoom_percent, canvas, lop,
          last_ss, ref, aref>>

mobile_vars == <<x, y, angle, is_moving, is_rotating, servo_left, servo_right,
                 light_values, sound, last, ref>>
actuator_vars == <<block_x, button_left, button_right, hit, servo, joy_dx, joy_dy,
                   alast, aref>>
layer_vars == <<rig, is_drawing, zoom, zoom_percent, canvas, last_ss>>

(***************************************************************************)
(* Bounds of the model.                                                    *)
(***************************************************************************)
MaxTicks == 3

\* Servo values the emulated program writes: 90 is neutral, 85 and 95
\* normalise to 0 by truncation, 80/100 to -1/+1, 110 to +2.
ServoValues == {80, 85, 90, 100, 110}

(***************************************************************************)
(* Program constants.                                                      *)
(***************************************************************************)
ObstacleX == 700
ObstacleY == 3000
ObstacleWidth == 600
ObstacleHeight == 450
ServoNeutral == 90
ServoDivisor == 10
KeyVelocity == 10
RotationStep == 5
LeftLimit == 508
RightLimit == 1912

(***************************************************************************)
(* The robot drawing (robot_drawings.MobileRobotDrawing): geometry and     *)
(* pose arithmetic.                                                        *)
(***************************************************************************)
Scale == 1000
RobotWidth == 200
RobotHeight == 300
DrawingWidth == 4000
DrawingHeight == 4000

\* 1000 * sin(a) for a = 0, 5, ..., 90 degrees
SinTab == <<0, 87, 174, 259, 342, 423, 500, 574, 643, 707,
            766, 819, 866, 906, 940, 966, 985, 996, 1000>>

Sin(a) ==
    IF a <= 90 THEN SinTab[(a \div 5) + 1]
    ELSE IF a <= 180 THEN SinTab[((180 - a) \div 5) + 1]
    ELSE IF a <= 270 THEN 0 - SinTab[((a - 180) \div 5) + 1]
    ELSE 0 - SinTab[((360 - a) \div 5) + 1]

Cos(a) == Sin((a + 90) % 360)

\* robot_drawing.predict_movement(v): the position v further along the heading
predict_movement(px, py, ang, v) == <<px + v * Cos(ang), py + v * Sin(ang)>>

\* robot_drawing.move(v): commits the position predict_movement(v) announced
robot_move(px, py, ang, v) == predict_movement(px, py, ang, v)

\* robot_drawing.change_angle(da): heading wrapped to [0, 360)
change_angle(ang, da) == (ang + da) % 360

(***************************************************************************)
(* MoblileRobotLayer                                                       *)
(***************************************************************************)
\* int((value - 90) / 10): Python's int() truncates towards zero
Normalize(value) ==
    IF value >= ServoNeutral
    THEN (value - ServoNeutral) \div ServoDivisor
    ELSE 0 - ((ServoNeutral - value) \div ServoDivisor)

Abs(n) == IF n < 0 THEN 0 - n ELSE n

\* __move_keys with the rotation block run whether or not the robot moves
move_keys_unguarded(movement, mov, rot) ==
    LET v1 == IF movement.w THEN 0 - KeyVelocity ELSE 0
        v == IF movement.s THEN KeyVelocity ELSE v1
        mov1 == IF ~rot THEN (v # 0) ELSE mov
        vr == IF ~rot THEN v ELSE 0
        da1 == IF movement.a THEN RotationStep ELSE 0
        da == IF movement.d THEN 0 - RotationStep ELSE da1
    IN [v |-> vr, da |-> da, is_moving |-> mov1, is_rotating |-> (da # 0)]

\* __move_keys with the two translate keys tested in the other order
move_keys_w_last(movement, mov, rot) ==
    LET v1 == IF movement.s THEN KeyVelocity ELSE 0
        v == IF movement.w THEN 0 - KeyVelocity ELSE v1
        mov1 == IF ~rot THEN (v # 0) ELSE mov
        vr == IF ~rot THEN v ELSE 0
        da1 == IF movement.a THEN RotationStep ELSE 0
        da == IF movement.d THEN 0 - RotationStep ELSE da1
        rot1 == IF ~mov1 THEN (da # 0) ELSE rot
        dar == IF ~mov1 THEN da ELSE 0
    IN [v |-> vr, da |-> dar, is_moving |-> mov1, is_rotating |-> rot1]

\* __move_keys without the branch that clears is_rotating
move_keys_sticky_rotation(movement, mov, rot) ==
    LET v1 == IF movement.w THEN 0 - KeyVelocity ELSE 0
        v == IF movement.s THEN KeyVelocity ELSE v1
        mov1 == IF ~rot THEN (v # 0) ELSE mov
        vr == IF ~rot THEN v ELSE 0
        da1 == IF movement.a THEN RotationStep ELSE 0
        da == IF movement.d THEN 0 - RotationStep ELSE da1
        rot1 == IF ~mov1 /\ da # 0 THEN TRUE ELSE rot
        dar == IF ~mov1 THEN da ELSE 0
    IN [v |-> vr, da |-> dar, is_moving |-> mov1, is_rotating |-> rot1]

\* __move_keys(movement) run with the flags (mov, rot); movement is a record
\* of the four keys. The result carries the flags as the method leaves them.
move_keys(movement, mov, rot) ==
    LET v1 == IF movement.w THEN 0 - KeyVelocity ELSE 0
        v == IF movement.s THEN KeyVelocity ELSE v1
        mov1 == IF ~rot THEN (v # 0) ELSE mov
        vr == IF ~rot THEN v ELSE 0
        da1 == IF movement.a THEN RotationStep ELSE 0
        da == IF movement.d THEN 0 - RotationStep ELSE da1
        rot1 == IF ~mov1 THEN (da # 0) ELSE rot
        dar == IF ~mov1 THEN da ELSE 0
    IN [v |-> vr, da |-> dar, is_moving |-> mov1, is_rotating |-> rot1]

\* __move_code without the test that the two magnitudes are equal
move_code_any_magnitude(sl, sr) ==
    LET v_i == Normalize(sl)
        v_r == Normalize(sr)
        cw == v_i >= 0 /\ v_r >= 0 /\ (v_i # 0 \/ v_r # 0)
        ccw == v_i <= 0 /\ v_r <= 0 /\ (v_i # 0 \/ v_r # 0)
        rotates == cw \/ ccw
        da == IF ccw THEN RotationStep ELSE IF cw THEN 0 - RotationStep ELSE 0
        v == IF ~rotates /\ v_i # 0 THEN 0 - v_i ELSE 0
    IN [v |-> v, da |-> da]

\* __move_code without "and not rotates" in the straight-line test
move_code_ignores_rotates(sl, sr) ==
    LET v_i == Normalize(sl)
        v_r == Normalize(sr)
        cw == v_i >= 0 /\ v_r >= 0 /\ (v_i # 0 \/ v_r # 0)
        ccw == v_i <= 0 /\ v_r <= 0 /\ (v_i # 0 \/ v_r # 0)
        da == IF ccw THEN RotationStep ELSE IF cw THEN 0 - RotationStep ELSE 0
        v == IF Abs(v_i) = Abs(v_r) /\ v_i # 0 THEN 0 - v_i ELSE 0
    IN [v |-> v, da |-> da]

\* __move_code() with the servo values (sl, sr); it does not touch the flags
move_code(sl, sr) ==
    LET v_i == Normalize(sl)
        v_r == Normalize(sr)
        cw == v_i >= 0 /\ v_r >= 0 /\ (v_i # 0 \/ v_r # 0)
        ccw == v_i <= 0 /\ v_r <= 0 /\ (v_i # 0 \/ v_r # 0)
        rotates == cw \/ ccw
        da == IF ccw THEN RotationStep ELSE IF cw THEN 0 - RotationStep ELSE 0
        v == IF Abs(v_i) = Abs(v_r) /\ ~rotates /\ v_i # 0 THEN 0 - v_i ELSE 0
    IN [v |-> v, da |-> da]

\* __check_obstacle_collision testing the centre of the robot only
check_obstacle_collision_no_margin(fx, fy) ==
    /\ fx >= ObstacleX * Scale
    /\ fy >= ObstacleY * Scale
    /\ fx <= (ObstacleX + ObstacleWidth) * Scale
    /\ fy <= (ObstacleY + ObstacleHeight) * Scale

\* __check_obstacle_collision(x, y), with width / 2 cleared by doubling
check_obstacle_collision(fx, fy) ==
    /\ 2 * fx + RobotWidth * Scale >= 2 * ObstacleX * Scale
    /\ 2 * fy + RobotHeight * Scale >= 2 * ObstacleY * Scale
    /\ 2 * fx <= 2 * (ObstacleX + ObstacleWidth) * Scale + RobotWidth * Scale
    /\ 2 * fy <= 2 * (ObstacleY + ObstacleHeight) * Scale + RobotHeight * Scale

\* the rejection test without the left wall
Rejected_no_left_wall(v, fx, fy) ==
    \/ v = 0
    \/ 2 * fx >= 2 * DrawingWidth * Scale - RobotWidth * Scale
    \/ 2 * fy <= RobotHeight * Scale
    \/ 2 * fy >= 2 * DrawingHeight * Scale - RobotHeight * Scale
    \/ check_obstacle_collision(fx, fy)

\* the rejection test without "v == 0"
Rejected_no_zero(v, fx, fy) ==
    \/ 2 * fx <= RobotWidth * Scale
    \/ 2 * fx >= 2 * DrawingWidth * Scale - RobotWidth * Scale
    \/ 2 * fy <= RobotHeight * Scale
    \/ 2 * fy >= 2 * DrawingHeight * Scale - RobotHeight * Scale
    \/ check_obstacle_collision(fx, fy)

\* the condition of move() under which the step is rejected
Rejected(v, fx, fy) ==
    \/ v = 0
    \/ 2 * fx <= RobotWidth * Scale
    \/ 2 * fx >= 2 * DrawingWidth * Scale - RobotWidth * Scale
    \/ 2 * fy <= RobotHeight * Scale
    \/ 2 * fy >= 2 * DrawingHeight * Scale - RobotHeight * Scale
    \/ check_obstacle_collision(fx, fy)

NoKeys == [w |-> FALSE, a |-> FALSE, s |-> FALSE, d |-> FALSE]
Keys == [w : BOOLEAN, a : BOOLEAN, s : BOOLEAN, d : BOOLEAN]

(***************************************************************************)
(* Sensors of the mobile robot: robot_drawing.sensors, the circuit and the *)
(* obstacle's distance function (robot_drawings).                          *)
(***************************************************************************)
\* Offsets <<forward, sideways>> of the light sensors in the robot's frame,
\* in sensor order, and of the ultrasound sensor
LightSensorOffsets == << <<150, -40>>, <<150, 40>> >>
SoundSensorOffset == <<150, 0>>

\* The circuit: a rectangular loop, the band between an outer rectangle and
\* the rectangle w inside it
Track == [x0 |-> 2150, y0 |-> 400, x1 |-> 3500, y1 |-> 2600, w |-> 60]

\* world position of a sensor at offset off of a robot at (px, py) heading ang
sensor_position(px, py, ang, off) ==
    <<px + off[1] * Cos(ang) - off[2] * Sin(ang),
      py + off[1] * Sin(ang) + off[2] * Cos(ang)>>

\* circuit.is_overlapping(x, y)
is_overlapping(sx, sy) ==
    /\ Track.x0 * Scale <= sx /\ sx <= Track.x1 * Scale
    /\ Track.y0 * Scale <= sy /\ sy <= Track.y1 * Scale
    /\ ~ (/\ (Track.x0 + Track.w) * Scale < sx /\ sx < (Track.x1 - Track.w) * Scale
          /\ (Track.y0 + Track.w) * Scale < sy /\ sy < (Track.y1 - Track.w) * Scale)

Min(a, b) == IF a <= b THEN a ELSE b
Max(a, b) == IF a >= b THEN a ELSE b

\* n / d rounded towards minus infinity, d # 0
Quot(n, d) == IF d > 0 THEN n \div d ELSE (0 - n) \div (0 - d)

\* the interval of ray parameters (world units) at which a ray from o with
\* direction component dir (per mille) lies between lo and hi
Slab(o, dir, lo, hi) ==
    IF dir = 0
    THEN IF lo <= o /\ o <= hi
         THEN <<0 - 2 * (DrawingWidth + DrawingHeight), 2 * (DrawingWidth + DrawingHeight)>>
         ELSE <<1, 0>>
    ELSE <<Min(Quot(lo - o, dir), Quot(hi - o, dir)),
           Max(Quot(lo - o, dir), Quot(hi - o, dir))>>

\* obstacle.calculate_distance(x, y, angle): the distance along the heading
\* from (sx, sy) to the obstacle, -1 when the ray misses it
calculate_distance(sx, sy, ang) ==
    LET sx_ == Slab(sx, Cos(ang), ObstacleX * Scale, (ObstacleX + ObstacleWidth) * Scale)
        sy_ == Slab(sy, Sin(ang), ObstacleY * Scale, (ObstacleY + ObstacleHeight) * Scale)
        enter == Max(sx_[1], sy_[1])
        exit == Min(sx_[2], sy_[2])
    IN IF sx_[1] <= sx_[2] /\ sy_[1] <= sy_[2] /\ enter <= exit /\ exit >= 0
       THEN Max(enter, 0)
       ELSE -1

\* __check_circuit_overlap(): the values handed to robot.set_light_sens_value
check_circuit_overlap(px, py, ang) ==
    [i \in 1..Len(LightSensorOffsets) |->
        LET sp == sensor_position(px, py, ang, LightSensorOffsets[i])
        IN IF is_overlapping(sp[1], sp[2]) THEN 1 ELSE 0]

\* __detect_obstacle(): robot.sound.value and robot.sound.dist
detect_obstacle(px, py, ang) ==
    LET sp == sensor_position(px, py, ang, SoundSensorOffset)
        dist == calculate_distance(sp[1], sp[2], ang)
    IN IF dist # -1 THEN [value |-> 1, dist |-> dist]
                    ELSE [value |-> 0, dist |-> -1]

\* move() with the two sensor checks made before the pose is committed
mobile_commit_sense_first(self, cmd, mov1, rot1) ==
    LET fp == predict_movement(self.x, self.y, self.angle, cmd.v)
        rej == Rejected(cmd.v, fp[1], fp[2])
        v == IF rej THEN 0 ELSE cmd.v
        mov2 == IF rej THEN FALSE ELSE mov1
        np == IF ~rot1 THEN robot_move(self.x, self.y, self.angle, v)
                       ELSE <<self.x, self.y>>
        na == IF ~mov2 THEN change_angle(self.angle, cmd.da) ELSE self.angle
    IN [x |-> np[1], y |-> np[2], angle |-> na,
        is_moving |-> mov2, is_rotating |-> rot1,
        light_values |-> check_circuit_overlap(self.x, self.y, self.angle),
        sound |-> detect_obstacle(self.x, self.y, self.angle),
        fx |-> fp[1], fy |-> fp[2], v |-> v]

\* move() computing in canvas units: the velocity is scaled by the zoom
mobile_commit_zoomed(self, cmd, mov1, rot1) ==
    LET vz == (cmd.v * self.zoom_percent) \div 100
        fp == predict_movement(self.x, self.y, self.angle, vz)
        rej == Rejected(vz, fp[1], fp[2])
        v == IF rej THEN 0 ELSE vz
        mov2 == IF rej THEN FALSE ELSE mov1
        np == IF ~rot1 THEN robot_move(self.x, self.y, self.angle, v)
                       ELSE <<self.x, self.y>>
        na == IF ~mov2 THEN change_angle(self.angle, cmd.da) ELSE self.angle
    IN [x |-> np[1], y |-> np[2], angle |-> na,
        is_moving |-> mov2, is_rotating |-> rot1,
        light_values |-> check_circuit_overlap(np[1], np[2], na),
        sound |-> detect_obstacle(np[1], np[2], na),
        fx |-> fp[1], fy |-> fp[2], v |-> v]

\* move(): everything after the command (cmd) has been resolved, for a robot
\* at the pose self; mov1 and rot1 are the flags as the resolution left them
mobile_commit(self, cmd, mov1, rot1) ==
    LET fp == predict_movement(self.x, self.y, self.angle, cmd.v)
        rej == Rejected(cmd.v, fp[1], fp[2])
        v == IF rej THEN 0 ELSE cmd.v
        mov2 == IF rej THEN FALSE ELSE mov1
        np == IF ~rot1 THEN robot_move(self.x, self.y, self.angle, v)
                       ELSE <<self.x, self.y>>
        na == IF ~mov2 THEN change_angle(self.angle, cmd.da) ELSE self.angle
    IN [x |-> np[1], y |-> np[2], angle |-> na,
        is_moving |-> mov2, is_rotating |-> rot1,
        light_values |-> check_circuit_overlap(np[1], np[2], na),
        sound |-> detect_obstacle(np[1], np[2], na),
        fx |-> fp[1], fy |-> fp[2], v |-> v]

\* the fields of the layer self once move() has committed the tick r
layer_after(self, r) ==
    [x |-> r.x, y |-> r.y, angle |-> r.angle,
     is_moving |-> r.is_moving, is_rotating |-> r.is_rotating,
     light_values |-> r.light_values, sound |-> r.sound,
     is_drawing |-> self.is_drawing, zoom_percent |-> self.zoom_percent]

\* move(using_keys, move_WASD, _) as a function of the layer self, the servos
\* being at (sl, sr): the layer after the call
mobile_move(self, using_keys, movement, sl, sr) ==
    IF using_keys
    THEN LET k == move_keys(movement, self.is_moving, self.is_rotating)
         IN layer_after(self, mobile_commit(self, [v |-> k.v, da |-> k.da],
                                            k.is_moving, k.is_rotating))
    ELSE layer_after(self, mobile_commit(self, move_code(sl, sr),
                                         self.is_moving, self.is_rotating))

\* a call of move leaves the drawing's state alone
Tick ==
    /\ ticks < MaxTicks
    /\ ticks' = ticks + 1
    /\ lop' = [op |-> "move", redraw |-> FALSE, was_drawing |-> is_drawing]
    /\ UNCHANGED layer_vars

\* move(): the resolved tick is committed to the layer
MobileCommit(mode, movement, cmd, mov1, rot1) ==
    \E r \in {mobile_commit([x |-> x, y |-> y, angle |-> angle,
                             is_drawing |-> is_drawing,
                             zoom_percent |-> zoom_percent], cmd, mov1, rot1)} :
       /\ x' = r.x
       /\ y' = r.y
       /\ angle' = r.angle
       /\ is_moving' = r.is_moving
       /\ is_rotating' = r.is_rotating
       /\ light_values' = r.light_values
       /\ sound' = r.sound
       /\ last' = [mode |-> mode, keys |-> movement,
                   v_cmd |-> cmd.v, da_cmd |-> cmd.da,
                   fx |-> r.fx, fy |-> r.fy, v |-> r.v,
                   px |-> x, py |-> y, pangle |-> angle,
                   pre_moving |-> is_moving, pre_rotating |-> is_rotating]

\* move(using_keys = True, move_WASD, _)
MobileMoveKeys ==
    /\ rig = "mobile"
    /\ Tick
    /\ \E movement \in Keys :
         LET r == move_keys(movement, is_moving, is_rotating)
         IN /\ MobileCommit("keys", movement, [v |-> r.v, da |-> r.da],
                            r.is_moving, r.is_rotating)
            /\ ref' = mobile_move(ref, TRUE, movement, servo_left, servo_right)
    /\ UNCHANGED <<servo_left, servo_right>>
    /\ UNCHANGED actuator_vars

\* move(using_keys = False, _, _), the program having written the two servos
MobileMoveCode ==
    /\ rig = "mobile"
    /\ Tick
    /\ \E sl \in ServoValues, sr \in ServoValues :
         /\ servo_left' = sl
         /\ servo_right' = sr
         /\ MobileCommit("code", NoKeys, move_code(sl, sr), is_moving, is_rotating)
         /\ ref' = mobile_move(ref, FALSE, NoKeys, sl, sr)
    /\ UNCHANGED actuator_vars

\* Poses the robot starts from: next to the left wall, above the obstacle,
\* in the bottom right corner heading diagonally, and in open space.
StartPoses ==
    { [x |-> 120, y |-> 2000, angle |-> 0],
      [x |-> 1000, y |-> 2830, angle |-> 90],
      [x |-> 3890, y |-> 3840, angle |-> 45],
      [x |-> 2000, y |-> 1000, angle |-> 0] }

NoTick == [mode |-> "none", keys |-> NoKeys, v_cmd |-> 0, da_cmd |-> 0,
           fx |-> 0, fy |-> 0, v |-> 0, px |-> 0, py |-> 0, pangle |-> 0,
           pre_moving |-> FALSE, pre_rotating |-> FALSE]

\* readings of robots.MobileRobot before the first tick
NoLight == [i \in 1..Len(LightSensorOffsets) |-> 0]
NoSound == [value |-> 0, dist |-> -1]

MobileIdle ==
    /\ x = 2000 * Scale
    /\ y = 1000 * Scale
    /\ angle = 0
    /\ is_moving = FALSE
    /\ is_rotating = FALSE
    /\ servo_left = ServoNeutral
    /\ servo_right = ServoNeutral
    /\ light_values = NoLight
    /\ sound = NoSound
    /\ last = NoTick

(***************************************************************************)
(* LinearActuatorLayer                                                     *)
(***************************************************************************)
JoystickMid == 500
JoystickMax == 1023

\* Servo values the emulated program writes to the actuator's servo
ActuatorServoValues == {0, 80, 85, 90, 100, 180}

NoDirs == [up |-> FALSE, down |-> FALSE, left |-> FALSE, right |-> FALSE]
Dirs == [up : BOOLEAN, down : BOOLEAN, left : BOOLEAN, right : BOOLEAN]

\* robot_drawing.move(v) of the actuator: the block is displaced by v
block_move(bx, v) == bx + v

\* __hit_left(has_hit) / __hit_right(has_hit): the button's value
hit_value(has_hit) == IF has_hit THEN 1 ELSE 0

\* __move_keys of the actuator with d tested before a
actuator_move_keys_d_first(movement, bx, bl, br) ==
    IF movement.d
    THEN LET v == IF bx < RightLimit THEN KeyVelocity ELSE 0
         IN [v |-> v, hit |-> (v = 0),
             button_left |-> bl, button_right |-> hit_value(v = 0)]
    ELSE IF movement.a
    THEN LET v == IF bx > LeftLimit THEN 0 - KeyVelocity ELSE 0
         IN [v |-> v, hit |-> (v = 0),
             button_left |-> hit_value(v = 0), button_right |-> br]
    ELSE [v |-> 0, hit |-> FALSE, button_left |-> bl, button_right |-> br]

\* __move_keys(movement) at block position bx with the buttons at (bl, br);
\* hit is False on entry (move() has just cleared it)
actuator_move_keys(movement, bx, bl, br) ==
    IF movement.a
    THEN LET v == IF bx > LeftLimit THEN 0 - KeyVelocity ELSE 0
         IN [v |-> v, hit |-> (v = 0),
             button_left |-> hit_value(v = 0), button_right |-> br]
    ELSE IF movement.d
    THEN LET v == IF bx < RightLimit THEN KeyVelocity ELSE 0
         IN [v |-> v, hit |-> (v = 0),
             button_left |-> bl, button_right |-> hit_value(v = 0)]
    ELSE [v |-> 0, hit |-> FALSE, button_left |-> bl, button_right |-> br]

\* __move_code that forgets to normalize the servo value
actuator_move_code_raw(sv, bx, bl, br) ==
    LET v_s == sv - ServoNeutral
    IN IF v_s > 0
       THEN LET v == IF bx < RightLimit THEN v_s ELSE 0
            IN [v |-> v, hit |-> (v = 0),
                button_left |-> bl, button_right |-> hit_value(v = 0)]
       ELSE IF v_s < 0
       THEN LET v == IF bx > LeftLimit THEN v_s ELSE 0
            IN [v |-> v, hit |-> (v = 0),
                button_left |-> hit_value(v = 0), button_right |-> br]
       ELSE [v |-> 0, hit |-> FALSE, button_left |-> bl, button_right |-> br]

\* __move_code() with the servo value sv
actuator_move_code(sv, bx, bl, br) ==
    LET v_s == Normalize(sv)
    IN IF v_s > 0
       THEN LET v == IF bx < RightLimit THEN v_s ELSE 0
            IN [v |-> v, hit |-> (v = 0),
                button_left |-> bl, button_right |-> hit_value(v = 0)]
       ELSE IF v_s < 0
       THEN LET v == IF bx > LeftLimit THEN v_s ELSE 0
            IN [v |-> v, hit |-> (v = 0),
                button_left |-> hit_value(v = 0), button_right |-> br]
       ELSE [v |-> 0, hit |-> FALSE, button_left |-> bl, button_right |-> br]

\* __parse_joystick with up tested after down and left after right
parse_joystick_up_left_last(movement) ==
    LET dy1 == IF movement.down THEN JoystickMax ELSE JoystickMid
        dy == IF movement.up THEN 0 ELSE dy1
        dx1 == IF movement.right THEN JoystickMax ELSE JoystickMid
        dx == IF movement.left THEN 0 ELSE dx1
    IN <<dx, dy>>

\* __parse_joystick(movement): <<dx, dy>>
parse_joystick(movement) ==
    LET dy1 == IF movement.up THEN 0 ELSE JoystickMid
        dy == IF movement.down THEN JoystickMax ELSE dy1
        dx1 == IF movement.left THEN 0 ELSE JoystickMid
        dx == IF movement.right THEN JoystickMax ELSE dx1
    IN <<dx, dy>>

\* move(using_keys, move_WASD, _) as a function of the actuator self, the
\* servo being at sv: the actuator after the call
actuator_move(self, using_keys, movement, sv) ==
    LET r == IF using_keys
             THEN actuator_move_keys(movement, self.block_x,
                                     self.button_left, self.button_right)
             ELSE actuator_move_code(sv, self.block_x,
                                     self.button_left, self.button_right)
    IN [block_x |-> block_move(self.block_x, r.v), hit |-> r.hit,
        button_left |-> r.button_left, button_right |-> r.button_right]

\* move(): the resolved tick r is committed
ActuatorCommit(mode, movement, dirs, r) ==
    /\ block_x' = block_move(block_x, r.v)
    /\ hit' = r.hit
    /\ button_left' = r.button_left
    /\ button_right' = r.button_right
    /\ alast' = [mode |-> mode, keys |-> movement, dirs |-> dirs, v |-> r.v,
                 px |-> block_x, pre_left |-> button_left,
                 pre_right |-> button_right]

\* move(using_keys = True, move_WASD, _)
ActuatorMoveKeys ==
    /\ rig = "actuator"
    /\ Tick
    /\ \E movement \in Keys :
         /\ ActuatorCommit("keys", movement, NoDirs,
                           actuator_move_keys(movement, block_x, button_left, button_right))
         /\ aref' = actuator_move(aref, TRUE, movement, servo)
    /\ UNCHANGED <<servo, joy_dx, joy_dy>>
    /\ UNCHANGED mobile_vars

\* move(using_keys = False, _, move_dir), the program having written the servo
ActuatorMoveCode ==
    /\ rig = "actuator"
    /\ Tick
    /\ \E sv \in ActuatorServoValues, dirs \in Dirs :
         /\ servo' = sv
         /\ joy_dx' = parse_joystick(dirs)[1]
         /\ joy_dy' = parse_joystick(dirs)[2]
         /\ ActuatorCommit("code", NoKeys, dirs,
                           actuator_move_code(sv, block_x, button_left, button_right))
         /\ aref' = actuator_move(aref, FALSE, NoKeys, sv)
    /\ UNCHANGED mobile_vars

(***************************************************************************)
(* Layer: execute, stop, zoom_in, zoom_out                                 *)
(***************************************************************************)
\* drawing.zoom_percentage() at zoom level z
zoom_percentage(z) == 100 + 10 * z

\* drawing.empty_drawing() / drawing.delete_zoomables(): nothing is left
empty_drawing(cv) == << >>
delete_zoomables(cv) == << >>

\* _draw_before_robot(): the circuit and the obstacle for the mobile robot,
\* nothing (the method of Layer) for the actuator
draw_before_robot(r, cv) ==
    IF r = "mobile" THEN cv \o <<"circuit", "obstacle">> ELSE cv

\* robot_drawing.draw()
draw_robot(cv) == Append(cv, "robot")

\* _drawing_config() that does not empty the drawing
drawing_config_keeps(r, cv) ==
    IF r = "mobile" THEN cv \o <<"circuit", "obstacle">> ELSE cv

\* _drawing_config(): Layer's empties the drawing, MoblileRobotLayer's then
\* creates the circuit and draws the obstacle
drawing_config(r, cv) ==
    IF r = "mobile" THEN empty_drawing(cv) \o <<"circuit", "obstacle">>
                    ELSE empty_drawing(cv)

\* _zoom_redraw() drawing the robot first
zoom_redraw_robot_first(r, cv) ==
    draw_before_robot(r, draw_robot(delete_zoomables(cv)))

\* _zoom_redraw()
zoom_redraw(r, cv) == draw_robot(draw_before_robot(r, delete_zoomables(cv)))

\* _zoom_config() that keeps the cached percentage
zoom_config_stale(r, drawing, z, pct, cv) ==
    [zoom_percent |-> pct,
     canvas |-> IF drawing THEN zoom_redraw(r, cv) ELSE cv,
     redraw |-> drawing]

\* _zoom_config() once the drawing is at zoom level z
zoom_config(r, drawing, z, pct, cv) ==
    [zoom_percent |-> zoom_percentage(z),
     canvas |-> IF drawing THEN zoom_redraw(r, cv) ELSE cv,
     redraw |-> drawing]

\* a call other than move leaves the robots alone
Call ==
    /\ ticks < MaxTicks
    /\ ticks' = ticks + 1
    /\ UNCHANGED <<rig, mobile_vars, actuator_vars>>

\* execute()
Execute ==
    /\ Call
    /\ canvas' = draw_robot(drawing_config(rig, canvas))
    /\ is_drawing' = TRUE
    /\ last_ss' = "start"
    /\ lop' = [op |-> "execute", redraw |-> FALSE, was_drawing |-> is_drawing]
    /\ UNCHANGED <<zoom, zoom_percent>>

\* stop()
Stop ==
    /\ Call
    /\ canvas' = empty_drawing(canvas)
    /\ is_drawing' = FALSE
    /\ last_ss' = "stop"
    /\ lop' = [op |-> "stop", redraw |-> FALSE, was_drawing |-> is_drawing]
    /\ UNCHANGED <<zoom, zoom_percent>>

\* zoom_in(): drawing.zoom_in(), then _zoom_config()
ZoomIn ==
    /\ Call
    /\ zoom' = zoom + 1
    /\ LET r == zoom_config(rig, is_drawing, zoom + 1, zoom_percent, canvas)
       IN /\ zoom_percent' = r.zoom_percent
          /\ canvas' = r.canvas
          /\ lop' = [op |-> "zoom_in", redraw |-> r.redraw, was_drawing |-> is_drawing]
    /\ UNCHANGED <<is_drawing, last_ss>>

\* zoom_out(): drawing.zoom_out(), then _zoom_config()
ZoomOut ==
    /\ Call
    /\ zoom' = zoom - 1
    /\ LET r == zoom_config(rig, is_drawing, zoom - 1, zoom_percent, canvas)
       IN /\ zoom_percent' = r.zoom_percent
          /\ canvas' = r.canvas
          /\ lop' = [op |-> "zoom_out", redraw |-> r.redraw, was_drawing |-> is_drawing]
    /\ UNCHANGED <<is_drawing, last_ss>>

\* Layer.__init__: the zoom percentage is read, nothing is drawn
LayerInit ==
    /\ is_drawing = FALSE
    /\ zoom = 0
    /\ zoom_percent = zoom_percentage(0)
    /\ canvas = << >>
    /\ lop = [op |-> "none", redraw |-> FALSE, was_drawing |-> FALSE]
    /\ last_ss = "none"
    /\ ticks = 0

\* the robots of the reference run are the robots of this one
RefInit ==
    /\ ref = [x |-> x, y |-> y, angle |-> angle,
              is_moving |-> is_moving, is_rotating |-> is_rotating,
              light_values |-> light_values, sound |-> sound,
              is_drawing |-> FALSE, zoom_percent |-> zoom_percentage(0)]
    /\ aref = [block_x |-> block_x, hit |-> hit,
               button_left |-> button_left, button_right |-> button_right]

ANoTick == [mode |-> "none", keys |-> NoKeys, dirs |-> NoDirs, v |-> 0, px |-> 0,
            pre_left |-> 0, pre_right |-> 0]

\* Positions the block starts from: the two limits and the middle of the rail
StartBlocks == {LeftLimit, 1210, RightLimit}

ActuatorIdle ==
    /\ block_x = LeftLimit
    /\ button_left = 0
    /\ button_right = 0
    /\ hit = FALSE
    /\ servo = ServoNeutral
    /\ joy_dx = JoystickMid
    /\ joy_dy = JoystickMid
    /\ alast = ANoTick

InitMobile ==
    /\ \E p \in StartPoses :
         /\ x = p.x * Scale
         /\ y = p.y * Scale
         /\ angle = p.angle
    /\ is_moving = FALSE
    /\ is_rotating = FALSE
    /\ servo_left = ServoNeutral
    /\ servo_right = ServoNeutral
    /\ light_values = NoLight
    /\ sound = NoSound
    /\ last = NoTick
    /\ ActuatorIdle
    /\ rig = "mobile"
    /\ LayerInit
    /\ RefInit

InitActuator ==
    /\ block_x \in StartBlocks
    /\ button_left = 0
    /\ button_right = 0
    /\ hit = FALSE
    /\ servo = ServoNeutral
    /\ joy_dx = JoystickMid
    /\ joy_dy = JoystickMid
    /\ alast = ANoTick
    /\ MobileIdle
    /\ rig = "actuator"
    /\ LayerInit
    /\ RefInit

NextMobile == MobileMoveKeys \/ MobileMoveCode

SpecMobile == InitMobile /\ [][NextMobile]_vars

NextActuator == ActuatorMoveKeys \/ ActuatorMoveCode

SpecActuator == InitActuator /\ [][NextActuator]_vars

\* Either layer, with every call the host can make on it
\* The lifecycle is explored from one start of each rig: the robot above the
\* obstacle, the block at the left limit
InitLayer ==
    \/ InitMobile /\ x = 1000 * Scale /\ y = 2830 * Scale
    \/ InitActuator /\ block_x = LeftLimit

NextLayer ==
    \/ Execute
    \/ Stop
    \/ ZoomIn
    \/ ZoomOut
    \/ MobileMoveKeys
    \/ MobileMoveCode
    \/ ActuatorMoveKeys
    \/ ActuatorMoveCode

SpecLayer == InitLayer /\ [][NextLayer]_vars

(***************************************************************************)
(* Properties of the mobile robot                                          *)
(***************************************************************************)
Ticked == last.mode # "none"

AtOrOverMargin(fx, fy) ==
    \/ 2 * fx <= RobotWidth * Scale
    \/ 2 * fx >= 2 * DrawingWidth * Scale - RobotWidth * Scale
    \/ 2 * fy <= RobotHeight * Scale
    \/ 2 * fy >= 2 * DrawingHeight * Scale - RobotHeight * Scale

\* C1: whatever calls of move were made, in either mode, the committed
\* position satisfies halfW <= x <= worldW - halfW and halfH <= y <= worldH -
\* halfH, and a step whose speculative position reaches or crosses a margin
\* leaves the position unchanged.
C1_PositionInWorld ==
    /\ RobotWidth * Scale <= 2 * x
    /\ 2 * x <= 2 * DrawingWidth * Scale - RobotWidth * Scale
    /\ RobotHeight * Scale <= 2 * y
    /\ 2 * y <= 2 * DrawingHeight * Scale - RobotHeight * Scale
    /\ (Ticked /\ AtOrOverMargin(last.fx, last.fy)) => (x = last.px /\ y = last.py)

\* a commanded step was rejected at the left wall
C1_Witness ==
    /\ Ticked
    /\ last.v_cmd # 0
    /\ 2 * last.fx <= RobotWidth * Scale
    /\ x = last.px

\* C2: is_moving and is_rotating are never both true, however key ticks and
\* servo ticks are mixed.
C2_FlagsExclusive == ~(is_moving /\ is_rotating)

\* a servo tick that follows a key tick with a flag still set
C2_Witness == last.mode = "code" /\ (is_moving \/ is_rotating)

InObstacleMargin(px, py) ==
    /\ 2 * ObstacleX * Scale - RobotWidth * Scale <= 2 * px
    /\ 2 * px <= 2 * (ObstacleX + ObstacleWidth) * Scale + RobotWidth * Scale
    /\ 2 * ObstacleY * Scale - RobotHeight * Scale <= 2 * py
    /\ 2 * py <= 2 * (ObstacleY + ObstacleHeight) * Scale + RobotHeight * Scale

\* C3: when the speculative position lies in the obstacle's rectangle widened
\* by the robot's half extents, the tick's velocity is 0, is_moving is false
\* and the position is unchanged; the committed position (the robot starts
\* outside) is never inside that rectangle.
C3_ObstacleStops ==
    /\ (Ticked /\ InObstacleMargin(last.fx, last.fy)) =>
          (last.v = 0 /\ ~is_moving /\ x = last.px /\ y = last.py)
    /\ ~InObstacleMargin(x, y)

\* a commanded step whose speculative position touches the widened rectangle
C3_Witness ==
    /\ Ticked
    /\ last.v_cmd # 0
    /\ InObstacleMargin(last.fx, last.fy)
    /\ last.v = 0

PoseUnchanged == x = last.px /\ y = last.py /\ angle = last.pangle

\* C4 as stated: the servo pair (100, 80) resolves to v = 0 and da = 0 and
\* neither position nor heading changes in that tick.
C4_AsStated ==
    (last.mode = "code" /\ servo_left = 100 /\ servo_right = 80) =>
        (last.v_cmd = 0 /\ last.da_cmd = 0 /\ PoseUnchanged)

\* C4 amended: a servo pair whose normalized values have opposite signs and
\* different magnitudes, such as (110, 80), resolves to v = 0 and da = 0 and
\* leaves the pose unchanged; (100, 80) normalizes to (1, -1), of equal
\* magnitude, and resolves to v = -1, da = 0.
C4_UnequalMixedNoMotion ==
    /\ (/\ last.mode = "code"
        /\ Normalize(servo_left) * Normalize(servo_right) < 0
        /\ Abs(Normalize(servo_left)) # Abs(Normalize(servo_right)))
          => (last.v_cmd = 0 /\ last.da_cmd = 0 /\ PoseUnchanged)
    /\ (last.mode = "code" /\ servo_left = 100 /\ servo_right = 80)
          => (last.v_cmd = -1 /\ last.da_cmd = 0)

\* the servo tick (110, 80) taken by a robot free to move
C4_Witness ==
    /\ last.mode = "code"
    /\ servo_left = 110
    /\ servo_right = 80
    /\ ~last.pre_rotating
    /\ PoseUnchanged

\* C5: in a servo tick, from any flags, two normalized values >= 0 that are
\* not both 0 turn the heading by exactly 5 clockwise (da = -5), two values
\* <= 0 that are not both 0 by exactly 5 counter-clockwise (da = +5); the
\* position is unchanged in both cases.
C5_ServoRotation ==
    LET v_i == Normalize(servo_left)
        v_r == Normalize(servo_right)
    IN /\ (last.mode = "code" /\ v_i >= 0 /\ v_r >= 0 /\ (v_i # 0 \/ v_r # 0)) =>
            /\ last.da_cmd = -5
            /\ angle = (last.pangle - 5) % 360
            /\ x = last.px /\ y = last.py
       /\ (last.mode = "code" /\ v_i <= 0 /\ v_r <= 0 /\ (v_i # 0 \/ v_r # 0)) =>
            /\ last.da_cmd = 5
            /\ angle = (last.pangle + 5) % 360
            /\ x = last.px /\ y = last.py

\* the servo pair (100, 100) read while is_moving was still set by a key tick
C5_Witness ==
    /\ last.mode = "code"
    /\ servo_left = 100
    /\ servo_right = 100
    /\ last.pre_moving
    /\ angle = (last.pangle - 5) % 360

\* C6: after every call of move, is_moving is true exactly when a non-zero
\* translation command survived the rejection test of that tick and
\* is_rotating is true exactly when a non-zero rotation was commanded in it.
C6_FlagsReflectTick ==
    Ticked => /\ is_moving <=> (last.v # 0)
              /\ is_rotating <=> (last.da_cmd # 0)

(***************************************************************************)
(* Properties of the linear actuator                                       *)
(***************************************************************************)
ATicked == alast.mode # "none"

CommandedLeft ==
    \/ alast.mode = "keys" /\ alast.keys.a
    \/ alast.mode = "code" /\ Normalize(servo) < 0

CommandedRight ==
    \/ alast.mode = "keys" /\ alast.keys.d /\ ~alast.keys.a
    \/ alast.mode = "code" /\ Normalize(servo) > 0

\* C7: at position 508 a tick commanded left is rejected (v = 0, position
\* unchanged) and button_left is set; a tick commanded right from 508 is
\* applied (the position increases) and button_left is clear after it, also
\* when the tick before had set it.
C7_LeftLimit ==
    /\ (ATicked /\ alast.px = LeftLimit /\ CommandedLeft) =>
          (alast.v = 0 /\ block_x = LeftLimit /\ button_left = 1)
    /\ (ATicked /\ alast.px = LeftLimit /\ CommandedRight) =>
          (block_x > LeftLimit /\ button_left = 0)

\* C8: after any calls of move, key-driven or servo-driven, the block
\* position satisfies 508 <= x <= 1912.
C8_BlockWithinLimits == LeftLimit <= block_x /\ block_x <= RightLimit

\* C9: after every call of move at most one of button_left, button_right is
\* set, and both are clear when the tick did not contact a limit (no command,
\* or a command that was applied).
C9_LimitFlags ==
    ATicked =>
        /\ ~(button_left = 1 /\ button_right = 1)
        /\ (alast.v # 0 \/ ~(CommandedLeft \/ CommandedRight)) =>
              (button_left = 0 /\ button_right = 0)

C11_JoystickAxes ==
    alast.mode = "code" =>
        LET k == alast.dirs
        IN /\ joy_dx \in {0, 500, 1023}
           /\ joy_dy \in {0, 500, 1023}
           /\ (k.up /\ ~k.down /\ ~k.left /\ ~k.right) => (joy_dx = 500 /\ joy_dy = 0)
           /\ (~k.up /\ ~k.down /\ ~k.left /\ ~k.right) => (joy_dx = 500 /\ joy_dy = 500)
           /\ joy_dy = (IF k.down THEN 1023 ELSE IF k.up THEN 0 ELSE 500)
           /\ joy_dx = (IF k.right THEN 1023 ELSE IF k.left THEN 0 ELSE 500)

\* a second tick parses up and down pressed together after other axes values
C11_Witness ==
    /\ alast.mode = "code"
    /\ alast.dirs.up
    /\ alast.dirs.down
    /\ joy_dy = 1023
    /\ ticks >= 2

PositionChanged == x # last.px \/ y # last.py

\* C16: in every call of move, in either mode and from any flags, at most one
\* of position and heading changes; a tick never commits both a non-zero
\* translation and a non-zero rotation.
C16_TranslateOrRotate ==
    Ticked => ~(PositionChanged /\ angle # last.pangle)

\* a key tick with a translate key and a rotation key held that moved the robot
C16_Witness ==
    /\ last.mode = "keys"
    /\ last.keys.w
    /\ last.keys.a
    /\ PositionChanged
    /\ angle = last.pangle

\* C17 as stated: in a key tick, w and s both pressed resolve to v = +10 and a
\* and d both pressed resolve to da = -5.
C17_AsStated ==
    last.mode = "keys" =>
        /\ (last.keys.w /\ last.keys.s) => last.v_cmd = 10
        /\ (last.keys.a /\ last.keys.d) => last.da_cmd = -5

\* the robot is still moving when the rotation keys are looked at
MovingAfterTranslateKeys ==
    IF last.pre_rotating THEN last.pre_moving ELSE (last.keys.w \/ last.keys.s)

\* C17 amended: in a key tick entered while the robot is not rotating, w and s
\* both pressed resolve to v = +10 (s wins); in a key tick in which no
\* translation is in progress when the rotation keys are read, a and d both
\* pressed resolve to da = -5 (d wins); in the other ticks the suppressed
\* component is 0 (v = 0 while rotating, da = 0 while moving).
C17_KeyPrecedence ==
    last.mode = "keys" =>
        /\ (last.keys.w /\ last.keys.s /\ ~last.pre_rotating) => last.v_cmd = 10
        /\ last.pre_rotating => last.v_cmd = 0
        /\ (last.keys.a /\ last.keys.d /\ ~MovingAfterTranslateKeys) => last.da_cmd = -5
        /\ MovingAfterTranslateKeys => last.da_cmd = 0

\* all four keys pressed by a robot at rest: s wins and the rotation is dropped
C17_Witness ==
    /\ last.mode = "keys"
    /\ last.keys.w /\ last.keys.s /\ last.keys.a /\ last.keys.d
    /\ ~last.pre_rotating
    /\ last.v_cmd = 10
    /\ last.da_cmd = 0

\* a key tick of a robot that was not rotating, with a translate key and a
\* rotation key pressed, whose translation was rejected
HeldAgainstWall ==
    /\ last.mode = "keys"
    /\ ~last.pre_rotating
    /\ last.v_cmd # 0
    /\ last.v = 0
    /\ (last.keys.a \/ last.keys.d)

\* C18: in a key tick where the robot is not rotating and a translate key gives
\* a non-zero velocity the heading is unchanged, also with a rotation key held
\* and also when the translation is rejected; and a robot held against a wall
\* with the same translate and rotation keys pressed tick after tick changes
\* neither position nor heading.
C18_NoTurnWhileTranslating ==
    /\ [](  (last.mode = "keys" /\ ~last.pre_rotating /\ last.v_cmd # 0)
              => (angle = last.pangle /\ ~is_rotating))
    /\ [][ (HeldAgainstWall /\ last'.mode = "keys" /\ ticks' = ticks + 1
               /\ last'.keys = last.keys)
             => (x' = x /\ y' = y /\ angle' = angle /\ HeldAgainstWall') ]_vars

\* the robot is held against a wall and can be ticked again
C18_Witness == HeldAgainstWall /\ PoseUnchanged /\ ticks >= 2 /\ ticks < MaxTicks

\* a key tick entered while rotating, with a translate key pressed and both
\* rotation keys released
RotationReleased ==
    /\ last.mode = "keys"
    /\ last.pre_rotating
    /\ ~last.keys.a /\ ~last.keys.d
    /\ (last.keys.w \/ last.keys.s)

\* the last tick was a key tick with a translate key and no rotation key whose
\* speculative position was not rejected (primed: of the next state)
FreeTranslateTick ==
    /\ last.mode = "keys"
    /\ ~last.keys.a /\ ~last.keys.d
    /\ (last.keys.w \/ last.keys.s)
    /\ ~AtOrOverMargin(last.fx, last.fy)
    /\ ~InObstacleMargin(last.fx, last.fy)

\* C19: when the robot is rotating and the rotation keys are released while a
\* translate key stays pressed, the first such tick commits no motion and only
\* clears is_rotating, and the second such tick, if not rejected, commits the
\* translation; when the robot is moving and the translate keys are released
\* while a rotation key is held, the rotation starts in that same tick.
C19_PhaseSwitch ==
    /\ [](RotationReleased => (PoseUnchanged /\ ~is_rotating /\ ~is_moving))
    /\ [][ (RotationReleased /\ ticks' = ticks + 1 /\ FreeTranslateTick')
             => (/\ x' = last'.fx /\ y' = last'.fy
                 /\ (x' # x \/ y' # y)
                 /\ angle' = angle
                 /\ is_moving') ]_vars
    /\ [](  (/\ last.mode = "keys" /\ last.pre_moving
             /\ ~last.keys.w /\ ~last.keys.s
             /\ (last.keys.a \/ last.keys.d))
              => (/\ is_rotating
                  /\ ~PositionChanged
                  /\ angle = (last.pangle + (IF last.keys.d THEN -5 ELSE 5)) % 360))

\* the tick that only clears is_rotating, with a further tick to come
C19_Witness == RotationReleased /\ PoseUnchanged /\ ~is_rotating /\ ticks < MaxTicks

\* C20: in a key tick of the actuator with a and d both pressed a wins and d is
\* ignored: the step is the left step and button_right is not rewritten; at a
\* position <= 508 the block does not move and button_left is raised.
C20_LeftKeyWins ==
    (alast.mode = "keys" /\ alast.keys.a /\ alast.keys.d) =>
        /\ button_right = alast.pre_right
        /\ alast.px <= 508 => (alast.v = 0 /\ block_x = alast.px /\ button_left = 1)
        /\ alast.px > 508 => (alast.v = -10 /\ block_x = alast.px - 10 /\ button_left = 0)

\* both keys held at the left limit
C20_Witness ==
    /\ alast.mode = "keys"
    /\ alast.keys.a
    /\ alast.keys.d
    /\ alast.px = 508
    /\ block_x = 508
    /\ button_left = 1
    /\ button_right = 0

\* C14: after every call of move, rejected steps included, the stored light
\* values are 1 exactly for the sensors whose point, taken at the committed
\* pose, lies on the track (in sensor order), and the ultrasound record is
\* (1, distance) or (0, -1) as measured from the committed pose.
C14_SensorsAtCommittedPose ==
    Ticked =>
        /\ Len(light_values) = Len(LightSensorOffsets)
        /\ \A i \in 1..Len(LightSensorOffsets) :
              LET sp == sensor_position(x, y, angle, LightSensorOffsets[i])
              IN light_values[i] = (IF is_overlapping(sp[1], sp[2]) THEN 1 ELSE 0)
        /\ LET sp == sensor_position(x, y, angle, SoundSensorOffset)
               d == calculate_distance(sp[1], sp[2], angle)
           IN /\ sound.dist = d
              /\ sound.value = (IF d = -1 THEN 0 ELSE 1)
              /\ sound.value = 0 => sound.dist = -1

\* a rejected step in front of the obstacle: the distance is the one of the
\* committed pose, not of the speculative one
C14_Witness ==
    /\ Ticked
    /\ last.v_cmd # 0
    /\ last.v = 0
    /\ sound.value = 1
    /\ sound.dist > 0
    /\ LET sp == sensor_position(last.fx, last.fy, angle, SoundSensorOffset)
       IN calculate_distance(sp[1], sp[2], angle) # sound.dist

(***************************************************************************)
(* Lifecycle and zoom                                                      *)
(***************************************************************************)
\* what execute() leaves on an emptied canvas
FreshDrawing == draw_robot(draw_before_robot(rig, << >>))

\* C12: is_drawing is false initially and, after any calls of execute, stop,
\* zoom_in, zoom_out and move, true exactly when the most recent of execute
\* and stop was execute; zoom_in, zoom_out and move leave the flag as it was,
\* stop leaves the canvas empty and execute leaves nothing on it but what it
\* drew itself.
C12_Lifecycle ==
    /\ is_drawing = (last_ss = "start")
    /\ lop.op = "none" => ~is_drawing
    /\ lop.op \in {"zoom_in", "zoom_out", "move"} => is_drawing = lop.was_drawing
    /\ lop.op = "stop" => canvas = << >>
    /\ lop.op = "execute" => canvas = FreshDrawing

\* execute() called while the previous drawing is still on the canvas
C12_Witness ==
    /\ lop.op = "execute"
    /\ lop.was_drawing
    /\ is_drawing
    /\ canvas = FreshDrawing

\* the items of cv named item are all in front of the robot
BeforeRobot(cv, item) ==
    /\ \E i \in 1..Len(cv) : cv[i] = item
    /\ \A i, j \in 1..Len(cv) : cv[i] = item /\ cv[j] = "robot" => i < j

\* C13: after every zoom_in and zoom_out the cached zoom_percent is the
\* drawing's zoom percentage at the new level, the call redrew exactly when
\* is_drawing was true, and after a redraw or execute the canvas holds the
\* robot with, on the mobile rig, the circuit and the obstacle drawn before it.
C13_ZoomConfig ==
    /\ lop.op \in {"zoom_in", "zoom_out"} =>
          /\ zoom_percent = zoom_percentage(zoom)
          /\ lop.redraw = lop.was_drawing
    /\ (lop.redraw \/ lop.op = "execute") =>
          /\ \E j \in 1..Len(canvas) : canvas[j] = "robot"
          /\ rig = "mobile" =>
                BeforeRobot(canvas, "circuit") /\ BeforeRobot(canvas, "obstacle")

\* a zoom_in that redrew the running mobile rig at a new percentage
C13_Witness ==
    /\ lop.op = "zoom_in"
    /\ lop.redraw
    /\ rig = "mobile"
    /\ zoom_percent # zoom_percentage(0)
    /\ canvas = <<"circuit", "obstacle", "robot">>

\* C15: after every tick the pose, the motion flags and the sensor readings
\* of the robot, and the position and limit flags of the block, equal those
\* of the reference run, which received the same calls of move and no call
\* of execute, stop, zoom_in or zoom_out.
C15_KinematicsIgnoreLifecycle ==
    /\ ref.x = x /\ ref.y = y /\ ref.angle = angle
    /\ ref.is_moving = is_moving /\ ref.is_rotating = is_rotating
    /\ ref.light_values = light_values /\ ref.sound = sound
    /\ aref = [block_x |-> block_x, hit |-> hit,
               button_left |-> button_left, button_right |-> button_right]

\* a tick that moved the robot while the layer was drawing and zoomed
C15_Witness ==
    /\ lop.op = "move"
    /\ rig = "mobile"
    /\ is_drawing
    /\ zoom_percent # ref.zoom_percent
    /\ last.v # 0
    /\ <<x, y>> # <<last.px, last.py>>

====
